---- MODULE Spec2Model ----
(***************************************************************************)
(* A state-machine model of the TodoApp controller of src/script.js: the   *)
(* in-memory task list, its localStorage slot "todos", the filter, the     *)
(* edit modal, the list / empty-state visibility and the notifications.    *)
(*                                                                         *)
(* Conventions.                                                            *)
(*  - A JavaScript scalar is named by a string: "absent" (the property is  *)
(*    missing, i.e. undefined), "null", "true", "false", "n:<number>" for  *)
(*    a number and "s:<chars>" for a string.  The same names are used for  *)
(*    the JSON literals in the storage slot; the literal "n:1e999" has no  *)
(*    value of its own name (it parses to "n:Infinity"), and the value     *)
(*    "n:Infinity" has no literal (it is written as null).                 *)
(*  - The text of a task is a record [ty, s]: its typeof and, for a        *)
(*    string, its characters, so that trim() is computed.                  *)
(*  - editingIndex keeps the code's 0-based index; null is NullIndex.      *)
(*  - The contents of the two text inputs are what the user typed by the   *)
(*    time of the event: they are inputs of the handlers.                  *)
(*  - Every handler runs to completion (single-threaded event loop), and   *)
(*    reads the clock once.                                                *)
(***************************************************************************)
EXTENDS Integers, Sequences, FiniteSets, TLC

VARIABLES pc, now, todos, storage, currentFilter, editingIndex, editTarget,
          modalDisplay, display, stats, notification, failures

vars == <<pc, now, todos, storage, currentFilter, editingIndex, editTarget,
          modalDisplay, display, stats, notification, failures>>

(***************************************************************************)
(* Bounds of the model.                                                    *)
(***************************************************************************)
\* tasks the store may hold before the add form stops being used
MaxTodos == 2
\* milliseconds the clock may advance
MaxClock == 1
\* distinct outcomes of Math.random()
MaxRand == 2
\* storage writes that may fail (quota exceeded)
MaxWriteFailures == 1

NullIndex == -1

(***************************************************************************)
(* Strings: String.prototype.trim over characters.                         *)
(***************************************************************************)
IsSpace(c) == c = " "

RECURSIVE TrimStart(_)
TrimStart(s) == IF s # <<>> /\ IsSpace(Head(s)) THEN TrimStart(Tail(s)) ELSE s

RECURSIVE TrimEnd(_)
TrimEnd(s) ==
  IF s # <<>> /\ IsSpace(s[Len(s)]) THEN TrimEnd(SubSeq(s, 1, Len(s) - 1)) ELSE s

Trim(s) == TrimEnd(TrimStart(s))

\* what the user may have typed into #todo-input or #edit-input
TextInputs == { <<>>, <<" ">>, <<"a">>, <<" ", "b", " ">> }

Str(s) == [ty |-> "string", s |-> s]

(***************************************************************************)
(* JavaScript truthiness of a scalar and of a text value.                  *)
(***************************************************************************)
Truthy(v) == v \notin {"absent", "null", "false", "n:0", "s:"}

TruthyText(t) ==
  CASE t.ty = "string" -> t.s # <<>>
    [] t.ty = "number" -> TRUE
    [] OTHER -> FALSE

(***************************************************************************)
(* JSON.parse and JSON.stringify on the scalars of a record.               *)
(***************************************************************************)
ParseScalar(lit) == IF lit = "n:1e999" THEN "n:Infinity" ELSE lit

StringifyScalar(v) == IF v = "n:Infinity" THEN "null" ELSE v

ParseItem(it) ==
  [jt |-> it.jt, id |-> ParseScalar(it.id), text |-> it.text,
   completed |-> ParseScalar(it.completed),
   createdAt |-> ParseScalar(it.createdAt),
   updatedAt |-> ParseScalar(it.updatedAt)]

StringifyItem(t) ==
  [jt |-> t.jt, id |-> StringifyScalar(t.id), text |-> t.text,
   completed |-> StringifyScalar(t.completed),
   createdAt |-> StringifyScalar(t.createdAt),
   updatedAt |-> StringifyScalar(t.updatedAt)]

\* the content of the slot: no item, "", unparseable text, a JSON value that
\* is no array, or a JSON array of elements
NoDoc == [kind |-> "none", items |-> <<>>]

Stringify(tds) ==
  [kind |-> "array", items |-> [i \in 1..Len(tds) |-> StringifyItem(tds[i])]]

Parse(doc) == [i \in 1..Len(doc.items) |-> ParseItem(doc.items[i])]

(***************************************************************************)
(* loadTodos                                                               *)
(***************************************************************************)
\* the filter of loadTodos without its last test, `todo.text.trim().length > 0`
ValidRecord_noTrim(todo) ==
  /\ todo.jt = "object"
  /\ Truthy(todo.id)
  /\ TruthyText(todo.text)
  /\ todo.text.ty = "string"

ValidRecord(todo) ==
  /\ todo.jt = "object"
  /\ Truthy(todo.id)
  /\ TruthyText(todo.text)
  /\ todo.text.ty = "string"
  /\ Len(Trim(todo.text.s)) > 0

\* getItem gives null or "": the body of `if (stored)` is skipped
LoadSkips(doc) == doc.kind \in {"none", "empty"}

\* JSON.parse throws, or the parsed value has no filter method
LoadThrows(doc) == doc.kind \in {"garbage", "scalar"}

\* loadTodos without `localStorage.removeItem("todos")` in its catch block
loadTodos_keepSlot(doc) ==
  IF LoadSkips(doc) THEN [todos |-> <<>>, storage |-> doc, threw |-> FALSE]
  ELSE IF LoadThrows(doc) THEN [todos |-> <<>>, storage |-> doc, threw |-> TRUE]
  ELSE [todos |-> SelectSeq(Parse(doc), ValidRecord), storage |-> doc,
        threw |-> FALSE]

loadTodos(doc) ==
  IF LoadSkips(doc) THEN [todos |-> <<>>, storage |-> doc, threw |-> FALSE]
  ELSE IF LoadThrows(doc) THEN [todos |-> <<>>, storage |-> NoDoc, threw |-> TRUE]
  ELSE [todos |-> SelectSeq(Parse(doc), ValidRecord), storage |-> doc,
        threw |-> FALSE]

(***************************************************************************)
(* The view: getFilteredTodos, showEmptyState, renderTodos, updateStats.   *)
(***************************************************************************)
Filters == {"all", "active", "completed"}

IsCompleted(t) == Truthy(t.completed)

IsActive(t) == ~Truthy(t.completed)

getFilteredTodos(tds, flt) ==
  CASE flt = "active" -> SelectSeq(tds, IsActive)
    [] flt = "completed" -> SelectSeq(tds, IsCompleted)
    [] OTHER -> tds

Hidden == [todoList |-> "none", emptyState |-> "block"]

Shown == [todoList |-> "block", emptyState |-> "none"]

showEmptyState(tds, flt) ==
  IF Len(tds) = 0 \/ Len(getFilteredTodos(tds, flt)) = 0 THEN Hidden ELSE Shown

\* renderTodos touches the visibility only through showEmptyState, and only
\* when nothing passes the filter
renderTodos(tds, flt, d) ==
  IF Len(getFilteredTodos(tds, flt)) = 0 THEN showEmptyState(tds, flt) ELSE d

updateStats(tds) ==
  [total |-> Len(tds), completed |-> Len(SelectSeq(tds, IsCompleted))]

(***************************************************************************)
(* Utilities.                                                              *)
(***************************************************************************)
generateId(t, r) == "s:" \o ToString(t) \o ToString(r)

toISOString(t) == "s:T" \o ToString(t)

Notify(type, message) == [type |-> type, message |-> message]

NoNotification == Notify("none", "")

\* todos.find((t) => t.id === id): the index (1-based) of the first match, 0
\* when there is none
RECURSIVE FindFrom(_, _, _)
FindFrom(tds, id, i) ==
  IF i > Len(tds) THEN 0
  ELSE IF tds[i].id = id THEN i
  ELSE FindFrom(tds, id, i + 1)

Find(tds, id) == FindFrom(tds, id, 1)

\* an id no task has
AbsentId == "s:none"

IdsOf(tds) == {tds[i].id : i \in 1..Len(tds)}

(***************************************************************************)
(* Construction.                                                           *)
(***************************************************************************)
Item(id, text, completed) ==
  [jt |-> "object", id |-> id, text |-> text, completed |-> completed,
   createdAt |-> "s:Tp", updatedAt |-> "s:Tp"]

NullItem ==
  [jt |-> "null", id |-> "absent", text |-> [ty |-> "absent", s |-> <<>>],
   completed |-> "absent", createdAt |-> "absent", updatedAt |-> "absent"]

Doc(items) == [kind |-> "array", items |-> items]

\* what the slot may hold when the page is opened: nothing, "", text that is
\* no JSON, JSON that is no array, and arrays: empty, two well-formed tasks,
\* two tasks with one id, tasks whose completed is no boolean, and elements
\* that are no task at all beside a task whose id is an overflowing number
Payloads ==
  { NoDoc,
    [kind |-> "empty", items |-> <<>>],
    [kind |-> "garbage", items |-> <<>>],
    [kind |-> "scalar", items |-> <<>>],
    Doc(<<>>),
    Doc(<<Item("s:i1", Str(<<"a">>), "true"),
          Item("s:i2", Str(<<"b">>), "false")>>),
    Doc(<<Item("s:i1", Str(<<"a">>), "false"),
          Item("s:i1", Str(<<"b">>), "true")>>),
    Doc(<<Item("s:i1", Str(<<"a">>), "absent"),
          Item("s:i2", Str(<<"b">>), "n:1")>>),
    Doc(<<NullItem,
          Item("absent", Str(<<"a">>), "false"),
          Item("s:i1", Str(<<" ">>), "false"),
          Item("s:i2", [ty |-> "number", s |-> <<>>], "false"),
          Item("n:1e999", Str(<<" ", "b">>), "false")>>) }

Init ==
  /\ pc = "new"
  /\ now = 0
  /\ todos = <<>>
  /\ storage \in Payloads
  /\ currentFilter = "all"
  /\ editingIndex = NullIndex
  /\ editTarget = AbsentId
  /\ modalDisplay = "none"
  /\ display = [todoList |-> "", emptyState |-> ""]
  /\ stats = [total |-> 0, completed |-> 0]
  /\ notification = NoNotification
  /\ failures = 0

initializeApp ==
  /\ pc = "new"
  /\ pc' = "ready"
  /\ LET r == loadTodos(storage) IN
       /\ todos' = r.todos
       /\ storage' = r.storage
       /\ IF r.threw
            THEN /\ notification' =
                      Notify("error", "Error loading todos. Please refresh the page.")
                 /\ UNCHANGED <<display, stats>>
            ELSE /\ display' = showEmptyState(r.todos, currentFilter)
                 /\ stats' = updateStats(r.todos)
                 /\ UNCHANGED notification
  /\ UNCHANGED <<now, currentFilter, editingIndex, editTarget, modalDisplay,
                 failures>>

\* time passes between two events
Tick ==
  /\ now < MaxClock
  /\ now' = now + 1
  /\ UNCHANGED <<pc, todos, storage, currentFilter, editingIndex, editTarget,
                 modalDisplay, display, stats, notification, failures>>

\* the outcomes of Math.random()
Rands == 0..(MaxRand - 1)

\* localStorage.setItem may throw, at most MaxWriteFailures times
MayWrite(w) == w \/ failures < MaxWriteFailures

\* saveTodos with a catch block that logs the error and does not rethrow it
saveTodos_swallow(tds, cur, w) ==
  IF w THEN [storage |-> Stringify(tds), threw |-> FALSE]
  ELSE [storage |-> cur, threw |-> FALSE]

\* saveTodos: w is whether localStorage.setItem succeeds; a failed write leaves
\* the slot as it was and is rethrown to the handler
saveTodos(tds, cur, w) ==
  IF w THEN [storage |-> Stringify(tds), threw |-> FALSE]
  ELSE [storage |-> cur, threw |-> TRUE]

(***************************************************************************)
(* Handlers.                                                               *)
(***************************************************************************)
\* text: what #todo-input holds when the form is submitted
handleAddTodo(text) ==
  /\ pc = "ready"
  /\ LET t == Trim(text) IN
     IF t = <<>> THEN UNCHANGED vars
     ELSE
       \E r \in Rands, w \in BOOLEAN :
       LET todo == [jt |-> "object", id |-> generateId(now, r), text |-> Str(t),
                    completed |-> "false", createdAt |-> toISOString(now),
                    updatedAt |-> toISOString(now)]
           tds == <<todo>> \o todos
           sv == saveTodos(tds, storage, w)
       IN /\ Len(todos) < MaxTodos
          /\ MayWrite(w)
          /\ todos' = tds
          /\ storage' = sv.storage
          /\ failures' = IF w THEN failures ELSE failures + 1
          /\ IF sv.threw
               THEN /\ notification' =
                         Notify("error", "Error adding task. Please try again.")
                    /\ UNCHANGED <<display, stats>>
               ELSE /\ display' = showEmptyState(tds, currentFilter)
                    /\ stats' = updateStats(tds)
                    /\ notification' = Notify("success", "Task added successfully!")
          /\ UNCHANGED <<pc, now, currentFilter, editingIndex, editTarget,
                         modalDisplay>>

closeModal ==
  /\ pc = "ready"
  /\ modalDisplay' = "none"
  /\ editingIndex' = NullIndex
  /\ editTarget' = AbsentId
  /\ UNCHANGED <<pc, now, todos, storage, currentFilter, display, stats,
                 notification, failures>>

Keys == {"Enter", "Escape"}

\* text: what #todo-input holds when the synthetic submit event is dispatched
handleKeyboardShortcuts(ctrl, key, text) ==
  /\ pc = "ready"
  /\ IF ctrl /\ key = "Enter" THEN handleAddTodo(text)
     ELSE IF ctrl /\ key = "Escape" THEN closeModal
     ELSE UNCHANGED vars

handleFilterChange(filter) ==
  /\ pc = "ready"
  /\ IF filter = currentFilter THEN UNCHANGED vars
     ELSE /\ currentFilter' = filter
          /\ display' = renderTodos(todos, filter, display)
          /\ UNCHANGED <<pc, now, todos, storage, editingIndex, editTarget,
                         modalDisplay, stats, notification, failures>>

ToggleAt(tds, i, t) ==
  [tds EXCEPT ![i] = [@ EXCEPT !.completed = IF Truthy(@) THEN "false" ELSE "true",
                               !.updatedAt = toISOString(t)]]

toggleTodo(id) ==
  /\ pc = "ready"
  /\ LET i == Find(todos, id) IN
     IF i = 0 THEN UNCHANGED vars
     ELSE
       \E w \in BOOLEAN :
       LET tds == ToggleAt(todos, i, now)
           sv == saveTodos(tds, storage, w)
       IN /\ MayWrite(w)
          /\ todos' = tds
          /\ storage' = sv.storage
          /\ failures' = IF w THEN failures ELSE failures + 1
          /\ IF sv.threw
               THEN /\ notification' =
                         Notify("error", "Error updating task. Please try again.")
                    /\ UNCHANGED <<display, stats>>
               ELSE /\ display' = renderTodos(tds, currentFilter, display)
                    /\ stats' = updateStats(tds)
                    /\ notification' =
                         IF Truthy(tds[i].completed)
                           THEN Notify("success", "Task marked as completed!")
                           ELSE Notify("success", "Task marked as active!")
          /\ UNCHANGED <<pc, now, currentFilter, editingIndex, editTarget,
                         modalDisplay>>

\* editTarget remembers the id the modal was opened for; the code keeps only
\* the index
editTodo(id) ==
  /\ pc = "ready"
  /\ LET i == Find(todos, id) IN
     IF i = 0 THEN UNCHANGED vars
     ELSE /\ editingIndex' = i - 1
          /\ editTarget' = id
          /\ modalDisplay' = "block"
          /\ UNCHANGED <<pc, now, todos, storage, currentFilter, display, stats,
                         notification, failures>>

EditAt(tds, i, newText, t) ==
  [tds EXCEPT ![i] = [@ EXCEPT !.text = Str(newText), !.updatedAt = toISOString(t)]]

\* text: what #edit-input holds when Save is clicked
saveEdit(text) ==
  /\ pc = "ready"
  /\ LET newText == Trim(text) IN
     IF newText = <<>> \/ editingIndex = NullIndex THEN UNCHANGED vars
     ELSE IF editingIndex >= Len(todos)
       \* todos[editingIndex] is undefined: the assignment throws a TypeError
       THEN /\ notification' =
                 Notify("error", "Error updating task. Please try again.")
            /\ UNCHANGED <<pc, now, todos, storage, currentFilter, editingIndex,
                           editTarget, modalDisplay, display, stats, failures>>
       ELSE
         \E w \in BOOLEAN :
         LET tds == EditAt(todos, editingIndex + 1, newText, now)
             sv == saveTodos(tds, storage, w)
         IN /\ MayWrite(w)
            /\ todos' = tds
            /\ storage' = sv.storage
            /\ failures' = IF w THEN failures ELSE failures + 1
            /\ IF sv.threw
                 THEN /\ notification' =
                           Notify("error", "Error updating task. Please try again.")
                      /\ UNCHANGED <<display, modalDisplay, editingIndex,
                                     editTarget>>
                 ELSE /\ display' = renderTodos(tds, currentFilter, display)
                      /\ modalDisplay' = "none"
                      /\ editingIndex' = NullIndex
                      /\ editTarget' = AbsentId
                      /\ notification' =
                           Notify("success", "Task updated successfully!")
            /\ UNCHANGED <<pc, now, currentFilter, stats>>

RemoveId(tds, id) == SelectSeq(tds, LAMBDA t : t.id # id)

deleteTodo(id, confirmed) ==
  /\ pc = "ready"
  /\ IF Find(todos, id) = 0 \/ ~confirmed THEN UNCHANGED vars
     ELSE
       \E w \in BOOLEAN :
       LET tds == RemoveId(todos, id)
           sv == saveTodos(tds, storage, w)
       IN /\ MayWrite(w)
          /\ todos' = tds
          /\ storage' = sv.storage
          /\ failures' = IF w THEN failures ELSE failures + 1
          /\ IF sv.threw
               THEN /\ notification' =
                         Notify("error", "Error deleting task. Please try again.")
                    /\ UNCHANGED <<display, stats>>
               ELSE /\ display' = showEmptyState(tds, currentFilter)
                    /\ stats' = updateStats(tds)
                    /\ notification' =
                         Notify("success", "Task deleted successfully!")
          /\ UNCHANGED <<pc, now, currentFilter, editingIndex, editTarget,
                         modalDisplay>>

RemoveCompleted(tds) == SelectSeq(tds, IsActive)

clearCompleted(confirmed) ==
  /\ pc = "ready"
  /\ LET completedCount == Len(SelectSeq(todos, IsCompleted)) IN
     IF completedCount = 0
       THEN /\ notification' = Notify("info", "No completed tasks to clear.")
            /\ UNCHANGED <<pc, now, todos, storage, currentFilter, editingIndex,
                           editTarget, modalDisplay, display, stats, failures>>
     ELSE IF ~confirmed THEN UNCHANGED vars
     ELSE
       \E w \in BOOLEAN :
       LET tds == RemoveCompleted(todos)
           sv == saveTodos(tds, storage, w)
       IN /\ MayWrite(w)
          /\ todos' = tds
          /\ storage' = sv.storage
          /\ failures' = IF w THEN failures ELSE failures + 1
          /\ IF sv.threw
               THEN /\ notification' =
                         Notify("error",
                                "Error clearing completed tasks. Please try again.")
                    /\ UNCHANGED <<display, stats>>
               ELSE /\ display' = showEmptyState(tds, currentFilter)
                    /\ stats' = updateStats(tds)
                    /\ notification' =
                         Notify("success", "completed task(s) cleared!")
          /\ UNCHANGED <<pc, now, currentFilter, editingIndex, editTarget,
                         modalDisplay>>

\* the ids the handlers are called with: those of the tasks, and one of no task
Targets == IdsOf(todos) \cup {AbsentId}

(***************************************************************************)
(* Specifications.  Next is every event of the page.  The store never      *)
(* reads the filter or the visibility, and a filter click changes nothing  *)
(* else, so the store is explored without filter clicks (SpecStore) and    *)
(* the view with a storage that does not fail and a clock that stands      *)
(* still (SpecView).  SpecModal is the store under the events a user can   *)
(* produce while the edit modal covers the page.                           *)
(***************************************************************************)
StoreEvents ==
  \/ initializeApp
  \/ Tick
  \/ \E text \in TextInputs : handleAddTodo(text)
  \/ \E ctrl \in BOOLEAN, key \in Keys, text \in TextInputs :
       handleKeyboardShortcuts(ctrl, key, text)
  \/ \E id \in Targets : toggleTodo(id)
  \/ \E id \in Targets : editTodo(id)
  \/ \E text \in TextInputs : saveEdit(text)
  \/ closeModal
  \/ \E id \in Targets, confirmed \in BOOLEAN : deleteTodo(id, confirmed)
  \/ \E confirmed \in BOOLEAN : clearCompleted(confirmed)

FilterEvents == \E filter \in Filters : handleFilterChange(filter)

Next == StoreEvents \/ FilterEvents

Spec == Init /\ [][Next]_vars

SpecStore == Init /\ [][StoreEvents]_vars

ViewEvents ==
  \/ initializeApp
  \/ \E text \in TextInputs : handleAddTodo(text)
  \/ \E ctrl \in BOOLEAN, key \in Keys, text \in TextInputs :
       handleKeyboardShortcuts(ctrl, key, text)
  \/ \E filter \in Filters : handleFilterChange(filter)
  \/ \E id \in Targets : toggleTodo(id)
  \/ \E id \in Targets : editTodo(id)
  \/ \E text \in TextInputs : saveEdit(text)
  \/ closeModal
  \/ \E id \in Targets, confirmed \in BOOLEAN : deleteTodo(id, confirmed)
  \/ \E confirmed \in BOOLEAN : clearCompleted(confirmed)

InitView ==
  /\ pc = "new"
  /\ now = 0
  /\ todos = <<>>
  /\ storage \in Payloads
  /\ currentFilter = "all"
  /\ editingIndex = NullIndex
  /\ editTarget = AbsentId
  /\ modalDisplay = "none"
  /\ display = [todoList |-> "", emptyState |-> ""]
  /\ stats = [total |-> 0, completed |-> 0]
  /\ notification = NoNotification
  /\ failures = MaxWriteFailures

SpecView == InitView /\ [][ViewEvents]_vars

\* The modal lies over the page (a click on the modal itself, outside its
\* box, closes it): while it is open the pointer reaches only the modal's
\* buttons, and the keyboard shortcuts still reach the document.
ModalClosed == modalDisplay # "block"

ModalEvents ==
  \/ initializeApp
  \/ Tick
  \/ ModalClosed /\ \E text \in TextInputs : handleAddTodo(text)
  \/ \E ctrl \in BOOLEAN, key \in Keys, text \in TextInputs :
       handleKeyboardShortcuts(ctrl, key, text)
  \/ ModalClosed /\ \E id \in Targets : toggleTodo(id)
  \/ ModalClosed /\ \E id \in Targets : editTodo(id)
  \/ \E text \in TextInputs : saveEdit(text)
  \/ closeModal
  \/ ModalClosed /\ \E id \in Targets, confirmed \in BOOLEAN :
       deleteTodo(id, confirmed)
  \/ ModalClosed /\ \E confirmed \in BOOLEAN : clearCompleted(confirmed)

SpecModal == Init /\ [][ModalEvents]_vars

(***************************************************************************)
(* Claims.  The formulas below use their own reading of the words of the   *)
(* claims (Blank, Restrict, ...) and not the operators of the handlers.    *)
(***************************************************************************)
Ready == pc = "ready"

SuccessMessages ==
  { "Task added successfully!", "Task marked as completed!",
    "Task marked as active!", "Task updated successfully!",
    "Task deleted successfully!", "completed task(s) cleared!" }

\* a mutating operation has completed with a successful write, and nothing has
\* been reported since
JustWritten == notification.type = "success" /\ notification.message \in SuccessMessages

\* C1: whenever a mutating operation (add, toggle, saveEdit, confirmed delete,
\* confirmed clearCompleted) has just completed with a successful storage
\* write, decoding the slot with the load procedure yields exactly the
\* in-memory task list: same tasks, same field values, same order.
C1_WriteThroughRoundTrip == JustWritten => loadTodos(storage).todos = todos

\* C6: no two tasks in the store have the same id, whatever payload the page
\* was opened on, and no operation changes the id of a task it keeps: the ids
\* after a step are ids before it, plus the id of the task an add puts first.
UniqueIds(tds) ==
  \A i, j \in 1..Len(tds) : i # j => tds[i].id # tds[j].id

KeptIds(old, new) ==
  \A i \in 1..Len(new) :
    \/ new[i].id \in IdsOf(old)
    \/ i = 1 /\ Len(new) = Len(old) + 1

C6_IdUniqueness ==
  [][UniqueIds(todos') /\ (Ready => KeptIds(todos, todos'))]_vars

\* C7: a confirmed delete(id) of an id no task has leaves the store unchanged;
\* of an id a task has, it makes the store exactly one task shorter, leaves no
\* task with that id, and keeps the other tasks unchanged and in order.
IsSubSeqWithout(old, new, id) ==
  /\ Len(new) = Len(old) - 1
  /\ \A i \in 1..Len(new) : new[i].id # id
  /\ \E k \in 1..Len(old) :
       /\ old[k].id = id
       /\ \A i \in 1..Len(new) : new[i] = IF i < k THEN old[i] ELSE old[i + 1]

C7_Delete ==
  [][\A id \in Targets :
       deleteTodo(id, TRUE) =>
         IF \A i \in 1..Len(todos) : todos[i].id # id
           THEN todos' = todos
           ELSE IsSubSeqWithout(todos, todos', id)]_vars

\* C8: in every state the page can reach, for every id a task has, toggle(id)
\* followed at once by toggle(id) gives the toggled task its original
\* completed value back and changes no other task.
ToggleTwice(tds, id) ==
  LET once == ToggleAt(tds, Find(tds, id), now)
  IN ToggleAt(once, Find(once, id), now)

C8_ToggleInvolution ==
  Ready =>
    \A id \in IdsOf(todos) :
      LET twice == ToggleTwice(todos, id) IN
      /\ Len(twice) = Len(todos)
      /\ \A i \in 1..Len(todos) :
           IF i = Find(todos, id)
             THEN twice[i].completed = todos[i].completed
             ELSE twice[i] = todos[i]

\* C9: a confirmed clearCompleted leaves the previous list restricted to the
\* tasks with completed = false, in order; the tasks removed are the tasks
\* with completed = true; the slot is written only when a task was removed;
\* and a second clearCompleted right after it would remove nothing.
Restrict(tds, flag) == SelectSeq(tds, LAMBDA t : t.completed = flag)

C9_ClearCompleted ==
  [][clearCompleted(TRUE) =>
       /\ todos' = Restrict(todos, "false")
       /\ Len(todos) - Len(todos') = Len(Restrict(todos, "true"))
       /\ (storage' # storage => Len(todos') < Len(todos))
       /\ RemoveCompleted(todos') = todos']_vars

\* a text is blank: empty, or white space only
Blank(s) == \A i \in 1..Len(s) : s[i] = " "

\* C2: when the modal was opened by editTodo(id) on a task of the store and
\* saveEdit runs with a text that is not blank, the (first) task whose id is
\* id gets the trimmed text and the current time as updatedAt, and no other
\* task changes, whatever happened between the two.
EditOf(tds, id, text) ==
  IF \A i \in 1..Len(tds) : tds[i].id # id THEN tds
  ELSE LET k == CHOOSE i \in 1..Len(tds) :
                  tds[i].id = id /\ \A j \in 1..(i - 1) : tds[j].id # id
       IN [i \in 1..Len(tds) |->
             IF i = k
               THEN [tds[i] EXCEPT !.text = Str(Trim(text)),
                                   !.updatedAt = toISOString(now)]
               ELSE tds[i]]

C2_EditTargetsChosenTask ==
  [][\A text \in TextInputs :
       (editTarget # AbsentId /\ ~Blank(text) /\ saveEdit(text))
         => todos' = EditOf(todos, editTarget, text)]_vars

\* C10: after a handler that changes the store or the filter, the list is
\* shown and the empty-state panel hidden exactly when some task passes the
\* current filter.
ListShown(d) == d.todoList = "block" /\ d.emptyState = "none"

C10_ViewFollowsProjection ==
  [][(Ready /\ (todos' # todos \/ currentFilter' # currentFilter))
       => (ListShown(display') <=>
             Len(getFilteredTodos(todos', currentFilter')) > 0)]_vars

\* the step of initializeApp
LoadStep == pc = "new" /\ pc' = "ready"

LoadErrorNote == Notify("error", "Error loading todos. Please refresh the page.")

\* the first add after a failed load: the store holds exactly the new task,
\* and the slot decodes to it when the write succeeds
AddAfterFailedLoad ==
  \A text \in TextInputs :
    (notification = LoadErrorNote /\ ~Blank(text) /\ handleAddTodo(text)) =>
      /\ Len(todos') = 1
      /\ todos'[1].text = Str(Trim(text))
      /\ todos'[1].completed = "false"
      /\ (failures' = failures => loadTodos(storage').todos = todos')

\* C3 as written: a payload that is unparseable ("" included), or parseable
\* but no array of records, leaves the store empty, removes the slot and
\* reports an error; the next add of a text that is not blank yields a store
\* of exactly that task.
NotStructured(doc) ==
  \/ doc.kind \in {"empty", "garbage", "scalar"}
  \/ doc.kind = "array" /\ \E k \in 1..Len(doc.items) : doc.items[k].jt # "object"

C3_AsWritten ==
  [][/\ (LoadStep /\ NotStructured(storage)) =>
          (todos' = <<>> /\ storage' = NoDoc /\ notification' = LoadErrorNote)
     /\ AddAfterFailedLoad]_vars

\* C3, amended: a payload that is a non-empty string and either is no JSON or
\* is JSON that is no array leaves the store empty, removes the slot and
\* reports an error; any other payload ("" and arrays
\* with elements that are no records included) is loaded without an error
\* and stays in the slot; after a failed load the next add of a text that is
\* not blank yields a store of exactly that task, persisted when the write
\* succeeds.
C3_CorruptedLoadRecovery ==
  [][/\ LoadStep =>
          IF storage.kind \in {"garbage", "scalar"}
            THEN /\ todos' = <<>>
                 /\ storage' = NoDoc
                 /\ notification' = LoadErrorNote
            ELSE /\ notification' = NoNotification
                 /\ storage' = storage
     /\ AddAfterFailedLoad]_vars

C3_Witness ==
  Ready /\ notification = LoadErrorNote /\ storage = NoDoc /\ todos = <<>>

\* C4: when the write of a mutating handler fails, an error is reported, the
\* mutation stays applied to the in-memory list, and the slot keeps the value
\* it had.
MutationApplied ==
  CASE notification'.message = "Error adding task. Please try again." ->
         /\ Len(todos') = Len(todos) + 1
         /\ Tail(todos') = todos
         /\ ~Blank(todos'[1].text.s)
    [] notification'.message = "Error updating task. Please try again." ->
         \E k \in 1..Len(todos) :
           \/ todos' = ToggleAt(todos, k, now) /\ todos' # todos
           \/ \E text \in TextInputs :
                ~Blank(text) /\ todos' = EditAt(todos, k, Trim(text), now)
    [] notification'.message = "Error deleting task. Please try again." ->
         \E id \in IdsOf(todos) : todos' = RemoveId(todos, id)
    [] notification'.message = "Error clearing completed tasks. Please try again." ->
         todos' = RemoveCompleted(todos) /\ Len(todos') < Len(todos)
    [] OTHER -> FALSE

C4_PersistenceFailure ==
  [][failures' = failures + 1 =>
       /\ notification'.type = "error"
       /\ MutationApplied
       /\ storage' = storage]_vars

C4_Witness ==
  /\ failures > 0
  /\ notification = Notify("error", "Error deleting task. Please try again.")
  /\ Len(loadTodos(storage).todos) > Len(todos)

\* C5: every task of the store has a text that is a string and is not blank;
\* add and saveEdit with a blank text change neither the list nor the slot;
\* and load keeps exactly the records that are objects with a truthy id and
\* such a text.
TextOk(t) == t.text.ty = "string" /\ ~Blank(t.text.s)

Loadable(t) == t.jt = "object" /\ Truthy(t.id) /\ TextOk(t)

C5_NonEmptyText ==
  [][/\ \A i \in 1..Len(todos') : TextOk(todos'[i])
     /\ \A text \in TextInputs :
          (Blank(text) /\ (handleAddTodo(text) \/ saveEdit(text)))
            => (todos' = todos /\ storage' = storage)
     /\ (LoadStep /\ storage.kind = "array")
          => todos' = SelectSeq(Parse(storage), Loadable)]_vars

\* loaded from a payload some of whose records were dropped, then edited
C5_Witness ==
  /\ Ready
  /\ notification = Notify("success", "Task updated successfully!")
  /\ \E i \in 1..Len(todos) : todos[i].id = "n:Infinity"

====
